---- MODULE Spec2Model ----
(***************************************************************************)
(* Elevator dispatch engine of kris27x/ElevatorControlSystem (backend).    *)
(*                                                                         *)
(* State: the service's Building (config + fixed fleet of elevator         *)
(* records) and the controller modules' own Building instances. One action *)
(* per HTTP handler: configure, pickup, target, update, step.  The         *)
(* selection algorithm, the queue handling and the per-elevator step are   *)
(* pure operators translated from the TypeScript sources.                  *)
(***************************************************************************)
EXTENDS Integers, Sequences, FiniteSets, TLC

VARIABLES elevators, config, ctrlElevators, bldgConfig, handler, response

vars == <<elevators, config, ctrlElevators, bldgConfig, handler, response>>

(* ------------------------------ bounds --------------------------------- *)
\* number of elevator records in a Building (Array.from({ length: 16 }) in
\* the source, scaled down)
Capacity == 2
\* floors that requests may name: 0 .. MaxFloors-1
MaxFloors == 3
\* pending targets an elevator may hold before further pushes are cut off
MaxQueue == 2
\* inputs of sortRequests: floors 0 .. MaxSortFloor, lists of at most MaxSortLen
MaxSortFloor == 4
MaxSortLen == 4
MaxLoad == 3

(* ------------------------- program constants --------------------------- *)
InitialFloors == 10
InitialActive == 5
Infinity == 999999
LoadGap == 2

Null == -1
None == -1

Ids == 0 .. (Capacity - 1)
Floors == 0 .. (MaxFloors - 1)
Directions == {1, -1}
FloorCounts == {1, MaxFloors}
ActiveCounts == -1 .. Capacity
RequestIds == 0 .. Capacity
Targets == Floors \cup {Null}

IdSeq == [k \in 1 .. Capacity |-> k - 1]

Abs(x) == IF x < 0 THEN -x ELSE x

includes(q, x) == \E k \in 1 .. Len(q) : q[k] = x

(* ------------------------------ Building ------------------------------- *)
NewElevator(id, activeElevators) ==
    [id |-> id, currentFloor |-> 0, targetFloors |-> <<>>,
     status |-> IF id < activeElevators THEN "idle" ELSE "off"]

NewBuildingElevators(activeElevators) ==
    [i \in Ids |-> NewElevator(i, activeElevators)]

updateConfig(els, activeElevators) ==
    [i \in Ids |->
        [els[i] EXCEPT
            !.status = IF i < activeElevators THEN "idle" ELSE "off",
            !.targetFloors = IF i >= activeElevators THEN <<>> ELSE @]]

\* variant: only the active elevators are reset, the others are just switched off
resetElevators_ActiveOnly(els, activeElevators) ==
    [i \in Ids |->
        IF i < activeElevators
        THEN [els[i] EXCEPT !.currentFloor = 0, !.targetFloors = <<>>, !.status = "idle"]
        ELSE [els[i] EXCEPT !.status = "off"]]

resetElevators(els, activeElevators) ==
    [i \in Ids |->
        IF i < activeElevators
        THEN [els[i] EXCEPT !.currentFloor = 0, !.targetFloors = <<>>, !.status = "idle"]
        ELSE [els[i] EXCEPT !.currentFloor = 0, !.targetFloors = <<>>, !.status = "off"]]

\* variant: the fleet is reset for the count stored before the new one is written
configureBuilding_StaleActive(els, cfg, numberOfFloors, activeElevators) ==
    [elevators |-> resetElevators(els, cfg.activeElevators),
     config |-> [numberOfFloors |-> numberOfFloors, activeElevators |-> activeElevators]]

configureBuilding(els, cfg, numberOfFloors, activeElevators) ==
    [elevators |-> resetElevators(updateConfig(els, activeElevators), activeElevators),
     config |-> [numberOfFloors |-> numberOfFloors, activeElevators |-> activeElevators]]

(* ------------------------- Dispatch Selector --------------------------- *)
distance(els, i, callFloor) == Abs(els[i].currentFloor - callFloor)

\* variant: the scan also replaces the best elevator on an equal distance
RECURSIVE ClosestScan_LastMin(_, _, _, _, _, _)
ClosestScan_LastMin(els, cand, callFloor, k, bestElevator, minDistance) ==
    IF k > Len(cand) THEN bestElevator
    ELSE IF distance(els, cand[k], callFloor) <= minDistance
         THEN ClosestScan_LastMin(els, cand, callFloor, k + 1, cand[k],
                                  distance(els, cand[k], callFloor))
         ELSE ClosestScan_LastMin(els, cand, callFloor, k + 1, bestElevator, minDistance)

\* linear scan keeping the first strictly smaller distance
RECURSIVE ClosestScan(_, _, _, _, _, _)
ClosestScan(els, cand, callFloor, k, bestElevator, minDistance) ==
    IF k > Len(cand) THEN bestElevator
    ELSE IF distance(els, cand[k], callFloor) < minDistance
         THEN ClosestScan(els, cand, callFloor, k + 1, cand[k],
                          distance(els, cand[k], callFloor))
         ELSE ClosestScan(els, cand, callFloor, k + 1, bestElevator, minDistance)

\* variant: the running minimum starts at 0 instead of Infinity
getClosestElevator_ZeroMin(els, suitableElevators, callFloor) ==
    ClosestScan(els, suitableElevators, callFloor, 1, None, 0)

getClosestElevator(els, suitableElevators, callFloor) ==
    ClosestScan(els, suitableElevators, callFloor, 1, None, Infinity)

\* variant: the comparator is reversed, the longest queue sorts first
RECURSIVE InsertByLoad_Descending(_, _, _)
InsertByLoad_Descending(els, sorted, x) ==
    IF sorted = <<>> THEN <<x>>
    ELSE IF Len(els[x].targetFloors) > Len(els[Head(sorted)].targetFloors)
         THEN <<x>> \o sorted
         ELSE <<Head(sorted)>> \o InsertByLoad_Descending(els, Tail(sorted), x)

\* Array.prototype.sort with (a, b) => a.targetFloors.length - b.targetFloors.length:
\* a stable insertion of each element behind the entries that are not longer
RECURSIVE InsertByLoad(_, _, _)
InsertByLoad(els, sorted, x) ==
    IF sorted = <<>> THEN <<x>>
    ELSE IF Len(els[x].targetFloors) < Len(els[Head(sorted)].targetFloors)
         THEN <<x>> \o sorted
         ELSE <<Head(sorted)>> \o InsertByLoad(els, Tail(sorted), x)

RECURSIVE SortByLoad(_, _)
SortByLoad(els, cand) ==
    IF cand = <<>> THEN <<>>
    ELSE InsertByLoad(els, SortByLoad(els, SubSeq(cand, 1, Len(cand) - 1)),
                      cand[Len(cand)])

getBestElevatorBasedOnTargetDifference(els, suitableElevators) ==
    LET sorted == SortByLoad(els, suitableElevators) IN
    IF Len(sorted) = 0 THEN None
    ELSE IF /\ Len(sorted) > 1
            /\ Len(els[sorted[1]].targetFloors) - Len(els[sorted[2]].targetFloors) > LoadGap
         THEN sorted[2]
         ELSE sorted[1]

isMovingTowardsCall(e, callFloor, direction) ==
    \/ (e.status = "up" /\ direction = 1 /\ e.currentFloor < callFloor)
    \/ (e.status = "down" /\ direction = -1 /\ e.currentFloor > callFloor)

isNotMovingAway(e, callFloor) ==
    \/ e.status = "idle"
    \/ (e.status = "up" /\ e.currentFloor < callFloor)
    \/ (e.status = "down" /\ e.currentFloor > callFloor)

\* candidate lists of the six tiers, in fleet (id) order
Tier1(els, callFloor, direction) ==
    SelectSeq(IdSeq, LAMBDA i :
        /\ els[i].status # "off"
        /\ includes(els[i].targetFloors, callFloor)
        /\ isMovingTowardsCall(els[i], callFloor, direction))

Tier2(els, callFloor) ==
    SelectSeq(IdSeq, LAMBDA i : includes(els[i].targetFloors, callFloor))

Tier3(els) ==
    SelectSeq(IdSeq, LAMBDA i : els[i].status = "idle")

Tier4(els, callFloor, direction) ==
    SelectSeq(IdSeq, LAMBDA i :
        /\ els[i].status # "off"
        /\ isMovingTowardsCall(els[i], callFloor, direction))

Tier5(els, callFloor) ==
    SelectSeq(IdSeq, LAMBDA i :
        /\ els[i].status # "off"
        /\ isNotMovingAway(els[i], callFloor))

\* variant: the fallback takes every record, switched off or not
Fallback_IncludesOff(els) == IdSeq

Fallback(els) ==
    SelectSeq(IdSeq, LAMBDA i : els[i].status # "off")

\* variant: tier 2 decides as soon as one elevator targets the floor
Tier2Applies_AnyMatch(els, callFloor) == Len(Tier2(els, callFloor)) > 0

\* tier 2 decides only when more than one elevator already targets the floor
Tier2Applies(els, callFloor) == Len(Tier2(els, callFloor)) > 1

selectBestElevator(els, callFloor, direction) ==
    IF Len(Tier1(els, callFloor, direction)) > 0
    THEN getBestElevatorBasedOnTargetDifference(els, Tier1(els, callFloor, direction))
    ELSE IF Tier2Applies(els, callFloor)
    THEN getClosestElevator(els, Tier2(els, callFloor), callFloor)
    ELSE IF Len(Tier3(els)) > 0
    THEN getClosestElevator(els, Tier3(els), callFloor)
    ELSE IF Len(Tier4(els, callFloor, direction)) > 0
    THEN getBestElevatorBasedOnTargetDifference(els, Tier4(els, callFloor, direction))
    ELSE IF Len(Tier5(els, callFloor)) > 0
    THEN getClosestElevator(els, Tier5(els, callFloor), callFloor)
    ELSE getClosestElevator(els, Fallback(els), callFloor)

(* --------------------------- elevatorService --------------------------- *)
updateStatus(els, id, floor, target) ==
    IF id \in Ids /\ els[id].status # "off"
    THEN [els EXCEPT ![id].status = IF target > floor THEN "up" ELSE "down"]
    ELSE els

\* variant: the load sort of the selector runs on the fleet array itself, so
\* the records end up in load order
pickup_SortsFleet(els, floor, direction) ==
    LET bestElevator == selectBestElevator(els, floor, direction)
        r == IF bestElevator # None
             THEN updateStatus(
                    [els EXCEPT ![bestElevator].targetFloors = Append(@, floor)],
                    bestElevator, els[bestElevator].currentFloor, floor)
             ELSE els
        order == SortByLoad(r, IdSeq)
    IN [i \in Ids |-> r[order[i + 1]]]

\* variant: the call floor is put at the head of the queue (unshift for push)
pickup_Unshift(els, floor, direction) ==
    LET bestElevator == selectBestElevator(els, floor, direction) IN
    IF bestElevator # None
    THEN updateStatus(
            [els EXCEPT ![bestElevator].targetFloors = <<floor>> \o @],
            bestElevator, els[bestElevator].currentFloor, floor)
    ELSE els

pickup(els, floor, direction) ==
    LET bestElevator == selectBestElevator(els, floor, direction) IN
    IF bestElevator # None
    THEN updateStatus(
            [els EXCEPT ![bestElevator].targetFloors = Append(@, floor)],
            bestElevator, els[bestElevator].currentFloor, floor)
    ELSE els

\* variant: the status check on the elevator is missing
update_NoOffGuard(els, id, floor, target) ==
    IF id \in Ids
    THEN [els EXCEPT
            ![id].currentFloor = floor,
            ![id].targetFloors = IF target # Null THEN Append(@, target) ELSE @,
            ![id].status = IF (IF target = Null THEN 0 ELSE target) > floor
                           THEN "up" ELSE "down"]
    ELSE els

\* target === null compares as 0 in "target > floor"
update(els, id, floor, target) ==
    IF id \in Ids /\ els[id].status # "off"
    THEN [els EXCEPT
            ![id].currentFloor = floor,
            ![id].targetFloors = IF target # Null THEN Append(@, target) ELSE @,
            ![id].status = IF (IF target = Null THEN 0 ELSE target) > floor
                           THEN "up" ELSE "down"]
    ELSE els

\* targetFloors.sort((a, b) => a - b)
RECURSIVE InsertAscending(_, _)
InsertAscending(sorted, x) ==
    IF sorted = <<>> THEN <<x>>
    ELSE IF x < Head(sorted) THEN <<x>> \o sorted
         ELSE <<Head(sorted)>> \o InsertAscending(Tail(sorted), x)

RECURSIVE SortAscending(_)
SortAscending(q) ==
    IF q = <<>> THEN <<>>
    ELSE InsertAscending(SortAscending(SubSeq(q, 1, Len(q) - 1)), q[Len(q)])

\* variant: the status check on the elevator is missing
addTarget_NoOffGuard(els, id, targetFloor) ==
    IF id \in Ids /\ ~includes(els[id].targetFloors, targetFloor)
    THEN [els EXCEPT ![id].targetFloors = SortAscending(Append(@, targetFloor))]
    ELSE els

\* variant: the floor is queued whether or not it is already in the queue
addTarget_NoDedupe(els, id, targetFloor) ==
    IF id \in Ids /\ els[id].status # "off"
    THEN [els EXCEPT ![id].targetFloors = SortAscending(Append(@, targetFloor))]
    ELSE els

addTarget(els, id, targetFloor) ==
    IF id \in Ids /\ els[id].status # "off" /\ ~includes(els[id].targetFloors, targetFloor)
    THEN [els EXCEPT ![id].targetFloors = SortAscending(Append(@, targetFloor))]
    ELSE els

\* variant: the elevator is put on its head target at once
stepElevator_Jump(e) ==
    IF Len(e.targetFloors) > 0 /\ e.status # "off"
    THEN LET targetFloor == e.targetFloors[1] IN
         IF e.currentFloor < targetFloor
         THEN [e EXCEPT !.currentFloor = targetFloor, !.status = "up"]
         ELSE IF e.currentFloor > targetFloor
         THEN [e EXCEPT !.currentFloor = targetFloor, !.status = "down"]
         ELSE [e EXCEPT !.targetFloors = Tail(@),
                        !.status = IF Len(e.targetFloors) > 1 THEN "up" ELSE "idle"]
    ELSE e

\* variant: an elevator with nothing queued is set to idle by the step
stepElevator_IdleOnEmpty(e) ==
    IF Len(e.targetFloors) > 0 /\ e.status # "off"
    THEN LET targetFloor == e.targetFloors[1] IN
         IF e.currentFloor < targetFloor
         THEN [e EXCEPT !.currentFloor = @ + 1, !.status = "up"]
         ELSE IF e.currentFloor > targetFloor
         THEN [e EXCEPT !.currentFloor = @ - 1, !.status = "down"]
         ELSE [e EXCEPT !.targetFloors = Tail(@),
                        !.status = IF Len(e.targetFloors) > 1 THEN "up" ELSE "idle"]
    ELSE IF e.status # "off" THEN [e EXCEPT !.status = "idle"] ELSE e

\* body of the forEach callback in step()
stepElevator(e) ==
    IF Len(e.targetFloors) > 0 /\ e.status # "off"
    THEN LET targetFloor == e.targetFloors[1] IN
         IF e.currentFloor < targetFloor
         THEN [e EXCEPT !.currentFloor = @ + 1, !.status = "up"]
         ELSE IF e.currentFloor > targetFloor
         THEN [e EXCEPT !.currentFloor = @ - 1, !.status = "down"]
         ELSE [e EXCEPT !.targetFloors = Tail(@),
                        !.status = IF Len(e.targetFloors) > 1 THEN "up" ELSE "idle"]
    ELSE e

\* one invocation of the forEach callback, on the elevator at index i of the
\* shared array
visit(els, i) == [els EXCEPT ![i] = stepElevator(els[i])]

\* the callback invoked once per elevator in the given order of indices
RECURSIVE stepInOrder(_, _)
stepInOrder(els, order) ==
    IF order = <<>> THEN els
    ELSE stepInOrder(visit(els, Head(order)), Tail(order))

\* variant: an elevator does not move onto the floor the first elevator of
\* the array has just moved to
step_Yielding(els) ==
    [i \in Ids |->
        IF /\ i > 0
           /\ stepElevator(els[i]).currentFloor # els[i].currentFloor
           /\ stepElevator(els[i]).currentFloor = stepElevator(els[0]).currentFloor
        THEN els[i]
        ELSE stepElevator(els[i])]

step(els) == [i \in Ids |-> stepElevator(els[i])]

(* ----------------------------- priorityAlgo ---------------------------- *)
\* variant: in the up branch a floor equal to currentFloor counts as behind
compare_UpStrict(direction, currentFloor, a, b) ==
    IF direction = "up"
    THEN IF a > currentFloor /\ b > currentFloor THEN a - b
         ELSE IF a > currentFloor THEN -1
         ELSE IF b > currentFloor THEN 1
         ELSE a - b
    ELSE IF direction = "down"
    THEN IF a <= currentFloor /\ b <= currentFloor THEN b - a
         ELSE IF a <= currentFloor THEN -1
         ELSE IF b <= currentFloor THEN 1
         ELSE b - a
    ELSE Abs(a - currentFloor) - Abs(b - currentFloor)

\* variant: in the down branch the floors above currentFloor are left ascending
compare_DownAscending(direction, currentFloor, a, b) ==
    IF direction = "up"
    THEN IF a >= currentFloor /\ b >= currentFloor THEN a - b
         ELSE IF a >= currentFloor THEN -1
         ELSE IF b >= currentFloor THEN 1
         ELSE a - b
    ELSE IF direction = "down"
    THEN IF a <= currentFloor /\ b <= currentFloor THEN b - a
         ELSE IF a <= currentFloor THEN -1
         ELSE IF b <= currentFloor THEN 1
         ELSE a - b
    ELSE Abs(a - currentFloor) - Abs(b - currentFloor)

\* the three comparators handed to Array.prototype.sort
compare(direction, currentFloor, a, b) ==
    IF direction = "up"
    THEN IF a >= currentFloor /\ b >= currentFloor THEN a - b
         ELSE IF a >= currentFloor THEN -1
         ELSE IF b >= currentFloor THEN 1
         ELSE a - b
    ELSE IF direction = "down"
    THEN IF a <= currentFloor /\ b <= currentFloor THEN b - a
         ELSE IF a <= currentFloor THEN -1
         ELSE IF b <= currentFloor THEN 1
         ELSE b - a
    ELSE Abs(a - currentFloor) - Abs(b - currentFloor)

\* variant: a floor that compares equal to one already placed is dropped
RECURSIVE InsertRequest_DropEqual(_, _, _, _)
InsertRequest_DropEqual(direction, currentFloor, sorted, x) ==
    IF sorted = <<>> THEN <<x>>
    ELSE IF compare(direction, currentFloor, x, Head(sorted)) < 0
         THEN <<x>> \o sorted
         ELSE IF compare(direction, currentFloor, x, Head(sorted)) = 0
         THEN sorted
         ELSE <<Head(sorted)>> \o
              InsertRequest_DropEqual(direction, currentFloor, Tail(sorted), x)

\* variant: a floor is placed in front of the floors it compares equal to
RECURSIVE InsertRequest_Unstable(_, _, _, _)
InsertRequest_Unstable(direction, currentFloor, sorted, x) ==
    IF sorted = <<>> THEN <<x>>
    ELSE IF compare(direction, currentFloor, x, Head(sorted)) <= 0
         THEN <<x>> \o sorted
         ELSE <<Head(sorted)>> \o
              InsertRequest_Unstable(direction, currentFloor, Tail(sorted), x)

\* Array.prototype.sort is stable: a floor goes behind every floor already
\* placed that does not compare greater
RECURSIVE InsertRequest(_, _, _, _)
InsertRequest(direction, currentFloor, sorted, x) ==
    IF sorted = <<>> THEN <<x>>
    ELSE IF compare(direction, currentFloor, x, Head(sorted)) < 0
         THEN <<x>> \o sorted
         ELSE <<Head(sorted)>> \o
              InsertRequest(direction, currentFloor, Tail(sorted), x)

RECURSIVE sortRequests(_, _, _)
sortRequests(currentFloor, direction, targetFloors) ==
    IF targetFloors = <<>> THEN <<>>
    ELSE InsertRequest(direction, currentFloor,
            sortRequests(currentFloor, direction,
                         SubSeq(targetFloors, 1, Len(targetFloors) - 1)),
            targetFloors[Len(targetFloors)])

updateElevatorTargets(e) ==
    [e EXCEPT !.targetFloors = sortRequests(e.currentFloor, e.status, e.targetFloors)]

(* --------------------------- elevatorController ------------------------ *)
\* the controller answers from its own Building instance
pickupElevatorResponse(floor, direction) ==
    LET bestElevator == selectBestElevator(ctrlElevators, floor, direction) IN
    IF bestElevator # None
    THEN [code |-> 200, elevator |-> bestElevator]
    ELSE [code |-> 404, elevator |-> None]

addTargetFloorResponse(id) ==
    IF \E i \in Ids : ctrlElevators[i].id = id
    THEN [code |-> 200, elevator |-> id]
    ELSE [code |-> 404, elevator |-> None]

\* GET /status: the service's fleet
getStatus == elevators

(* --------------------------- buildingController ------------------------ *)
\* GET /config: answered from the building controller's own Building instance
getBuildingConfig == bldgConfig

\* no request handler is on the call stack
NoHandler ==
    [op |-> "none", k |-> 0, numberOfFloors |-> 0, activeElevators |-> 0,
     pre |-> NewBuildingElevators(InitialActive),
     preConfig |-> [numberOfFloors |-> InitialFloors, activeElevators |-> InitialActive]]

\* no status response is being written
NoResponse == [pending |-> FALSE, body |-> NewBuildingElevators(InitialActive)]

TypeOK ==
    /\ DOMAIN elevators = Ids
    /\ \A i \in Ids : elevators[i].status \in {"up", "down", "idle", "off"}
    /\ handler.op \in {"none", "step", "configure"}
    /\ response.pending \in BOOLEAN

Init ==
    /\ elevators = NewBuildingElevators(InitialActive)
    /\ config = [numberOfFloors |-> InitialFloors, activeElevators |-> InitialActive]
    /\ ctrlElevators = NewBuildingElevators(InitialActive)
    /\ bldgConfig = [numberOfFloors |-> InitialFloors, activeElevators |-> InitialActive]
    /\ handler = NoHandler
    /\ response = NoResponse

Configure(n, a) ==
    LET r == configureBuilding(elevators, config, n, a) IN
    /\ elevators' = r.elevators
    /\ config' = r.config
    /\ UNCHANGED <<ctrlElevators, bldgConfig, handler, response>>

\* every queue stays within MaxQueue entries
WithinBound(els) == \A i \in Ids : Len(els[i].targetFloors) <= MaxQueue

\* variant: the handler dereferences the selected elevator without the null
\* check, so a call that finds no elevator raises and the request has no
\* successor state
Pickup_ThrowsOnNone(f, d) ==
    /\ selectBestElevator(elevators, f, d) # None
    /\ WithinBound(pickup(elevators, f, d))
    /\ elevators' = IF pickupElevatorResponse(f, d).code = 200
                    THEN pickup(elevators, f, d)
                    ELSE elevators
    /\ UNCHANGED <<config, ctrlElevators, bldgConfig, handler, response>>

Pickup(f, d) ==
    /\ WithinBound(pickup(elevators, f, d))
    /\ elevators' = IF pickupElevatorResponse(f, d).code = 200
                    THEN pickup(elevators, f, d)
                    ELSE elevators
    /\ UNCHANGED <<config, ctrlElevators, bldgConfig, handler, response>>

AddTarget(id, t) ==
    /\ WithinBound(addTarget(elevators, id, t))
    /\ elevators' = IF addTargetFloorResponse(id).code = 200
                    THEN addTarget(elevators, id, t)
                    ELSE elevators
    /\ UNCHANGED <<config, ctrlElevators, bldgConfig, handler, response>>

Update(id, f, t) ==
    /\ WithinBound(update(elevators, id, f, t))
    /\ elevators' = update(elevators, id, f, t)
    /\ UNCHANGED <<config, ctrlElevators, bldgConfig, handler, response>>

Step ==
    /\ elevators' = step(elevators)
    /\ UNCHANGED <<config, ctrlElevators, bldgConfig, handler, response>>

Next ==
    \/ \E n \in FloorCounts, a \in ActiveCounts : Configure(n, a)
    \/ \E f \in Floors, d \in Directions : Pickup(f, d)
    \/ \E id \in RequestIds, t \in Floors : AddTarget(id, t)
    \/ \E id \in RequestIds, f \in Floors, t \in Targets : Update(id, f, t)
    \/ Step

Spec == Init /\ [][Next]_vars

(* sortRequests on its own: elevator 0 starts as any record within the     *)
(* bounds and updateElevatorTargets is applied to the elevators            *)
SortFloors == 0 .. MaxSortFloor
SortLists == UNION {[1 .. n -> SortFloors] : n \in 0 .. MaxSortLen}
Statuses == {"up", "down", "idle", "off"}

SortInit ==
    /\ elevators \in
         {[i \in Ids |->
             IF i = 0
             THEN [id |-> 0, currentFloor |-> c, targetFloors |-> q, status |-> st]
             ELSE NewElevator(i, InitialActive)] :
          c \in SortFloors, q \in SortLists, st \in Statuses}
    /\ config = [numberOfFloors |-> InitialFloors, activeElevators |-> InitialActive]
    /\ ctrlElevators = NewBuildingElevators(InitialActive)
    /\ bldgConfig = [numberOfFloors |-> InitialFloors, activeElevators |-> InitialActive]
    /\ handler = NoHandler
    /\ response = NoResponse

UpdateElevatorTargets(i) ==
    /\ elevators' = [elevators EXCEPT ![i] = updateElevatorTargets(@)]
    /\ UNCHANGED <<config, ctrlElevators, bldgConfig, handler, response>>

SortNext == \E i \in Ids : UpdateElevatorTargets(i)

SortSpec == SortInit /\ [][SortNext]_vars

(* ------------------- calls and steps of a running simulation ----------- *)
\* the front end's simulation timer posts /step every interval while calls
\* and targets keep coming in; the building is not reconfigured
CallNext ==
    \/ \E f \in Floors, d \in Directions : Pickup(f, d)
    \/ \E id \in RequestIds, t \in Floors : AddTarget(id, t)
    \/ Step

CallSpec == Init /\ [][CallNext]_vars /\ WF_vars(Step)

(* ------------------ the load rule applied to loaded fleets ------------- *)
\* queues of up to MaxLoad calls for one floor
LoadQueues == {[k \in 1 .. n |-> t] : n \in 0 .. MaxLoad, t \in Floors}

\* every elevator stands at the ground floor with any status and any load
LoadInit ==
    /\ elevators \in
         {[i \in Ids |->
             [id |-> i, currentFloor |-> 0, targetFloors |-> qs[i], status |-> sts[i]]] :
          qs \in [Ids -> LoadQueues], sts \in [Ids -> Statuses]}
    /\ config = [numberOfFloors |-> InitialFloors, activeElevators |-> InitialActive]
    /\ ctrlElevators = NewBuildingElevators(InitialActive)
    /\ bldgConfig = [numberOfFloors |-> InitialFloors, activeElevators |-> InitialActive]
    /\ handler = NoHandler
    /\ response = NoResponse

\* a call dispatched on the loaded fleet
LoadPickup(f, d) ==
    /\ \A i \in Ids : Len(pickup(elevators, f, d)[i].targetFloors) <= MaxLoad
    /\ elevators' = pickup(elevators, f, d)
    /\ UNCHANGED <<config, ctrlElevators, bldgConfig, handler, response>>

LoadNext == \E f \in Floors, d \in Directions : LoadPickup(f, d)

LoadSpec == LoadInit /\ [][LoadNext]_vars

(* ------------- request handlers on the server's event loop ------------ *)
\* variant: a request is taken up while another handler is still running
Dispatchable_Anytime == TRUE

\* every handler is a synchronous function: the event loop takes the next
\* request only when the running handler has returned
Dispatchable == handler.op = "none" /\ ~response.pending

LoopPickup(f, d) == Dispatchable /\ Pickup(f, d)

LoopAddTarget(id, t) == Dispatchable /\ AddTarget(id, t)

\* executeStep enters step()
StepBegin ==
    /\ Dispatchable
    /\ handler' = [NoHandler EXCEPT !.op = "step", !.pre = elevators, !.preConfig = config]
    /\ UNCHANGED <<elevators, config, ctrlElevators, bldgConfig, response>>

\* one iteration of the forEach of step()
StepVisit ==
    /\ handler.op = "step"
    /\ handler.k < Capacity
    /\ elevators' = visit(elevators, handler.k)
    /\ handler' = [handler EXCEPT !.k = @ + 1]
    /\ UNCHANGED <<config, ctrlElevators, bldgConfig, response>>

\* step() returns and the response is sent
StepEnd ==
    /\ handler.op = "step"
    /\ handler.k = Capacity
    /\ handler' = NoHandler
    /\ UNCHANGED <<elevators, config, ctrlElevators, bldgConfig, response>>

\* the configure handler enters configureBuilding(n, a)
ConfigureBegin(n, a) ==
    /\ Dispatchable
    /\ handler' = [NoHandler EXCEPT !.op = "configure", !.numberOfFloors = n,
                                    !.activeElevators = a,
                                    !.pre = elevators, !.preConfig = config]
    /\ UNCHANGED <<elevators, config, ctrlElevators, bldgConfig, response>>

\* building.updateConfig(numberOfFloors, activeElevators)
ConfigureUpdate ==
    /\ handler.op = "configure"
    /\ handler.k = 0
    /\ config' = [numberOfFloors |-> handler.numberOfFloors,
                  activeElevators |-> handler.activeElevators]
    /\ elevators' = updateConfig(elevators, handler.activeElevators)
    /\ handler' = [handler EXCEPT !.k = 1]
    /\ UNCHANGED <<ctrlElevators, bldgConfig, response>>

\* resetElevators(activeElevators), then the handler returns
ConfigureReset ==
    /\ handler.op = "configure"
    /\ handler.k = 1
    /\ elevators' = resetElevators(elevators, handler.activeElevators)
    /\ handler' = NoHandler
    /\ UNCHANGED <<config, ctrlElevators, bldgConfig, response>>

\* getElevatorStatus reads the fleet for the response body
StatusRead ==
    /\ Dispatchable
    /\ response' = [pending |-> TRUE, body |-> getStatus]
    /\ UNCHANGED <<elevators, config, ctrlElevators, bldgConfig, handler>>

\* res.json sends the body
StatusSend ==
    /\ response.pending
    /\ response' = NoResponse
    /\ UNCHANGED <<elevators, config, ctrlElevators, bldgConfig, handler>>

LoopNext ==
    \/ \E f \in Floors, d \in Directions : LoopPickup(f, d)
    \/ \E id \in RequestIds, t \in Floors : LoopAddTarget(id, t)
    \/ StepBegin
    \/ StepVisit
    \/ StepEnd
    \/ \E n \in FloorCounts, a \in ActiveCounts : ConfigureBegin(n, a)
    \/ ConfigureUpdate
    \/ ConfigureReset
    \/ StatusRead
    \/ StatusSend

LoopSpec == Init /\ [][LoopNext]_vars

(* ======================================================================= *)
(*                               Properties                                *)
(* ======================================================================= *)
Elems(q) == {q[k] : k \in 1 .. Len(q)}

AllOff == \A i \in Ids : elevators[i].status = "off"

RECURSIVE StepN(_, _)
StepN(els, n) == IF n = 0 THEN els ELSE StepN(step(els), n - 1)

\* C1: Pickup never assigns a call to an Off elevator: no call, in any
\* reachable fleet state, makes selectBestElevator return an Off elevator, and
\* a Pickup step never changes the queue of an Off elevator.
C1_PickupNeverSelectsOff ==
    [][ /\ \A f \in Floors, d \in Directions :
            LET b == selectBestElevator(elevators, f, d) IN
            b # None => elevators[b].status # "off"
        /\ \A f \in Floors, d \in Directions :
            Pickup(f, d) =>
                \A i \in Ids : elevators[i].status = "off" =>
                    elevators'[i].targetFloors = elevators[i].targetFloors ]_vars

\* an Off elevator stands beside a running one that holds a call, and a
\* further call can be dispatched
C1_Witness ==
    /\ \E i \in Ids : elevators[i].status = "off"
    /\ \E j \in Ids : elevators[j].status \in {"up", "down"}
                      /\ Len(elevators[j].targetFloors) > 1
    /\ \E f \in Floors, d \in Directions : selectBestElevator(elevators, f, d) # None

\* C2: selectBestElevator returns none exactly when every elevator is Off.
C2_FallbackTotality ==
    \A f \in Floors, d \in Directions :
        (selectBestElevator(elevators, f, d) = None) <=> AllOff

\* the whole fleet is switched off
C2_Witness == AllOff /\ config.activeElevators = 0

\* candidates of tier k (1..6) for a call
TierCandidates(els, k, callFloor, direction) ==
    CASE k = 1 -> Tier1(els, callFloor, direction)
      [] k = 2 -> Tier2(els, callFloor)
      [] k = 3 -> Tier3(els)
      [] k = 4 -> Tier4(els, callFloor, direction)
      [] k = 5 -> Tier5(els, callFloor)
      [] OTHER -> Fallback(els)

\* C3 as stated: the first tier that has any candidate at all (one is enough)
\* supplies the elevator that is returned.
C3_TierPrecedenceAnyCandidate ==
    \A f \in Floors, d \in Directions, k \in 1 .. 6 :
        ( /\ Len(TierCandidates(elevators, k, f, d)) > 0
          /\ \A j \in 1 .. (k - 1) : Len(TierCandidates(elevators, j, f, d)) = 0 )
        => selectBestElevator(elevators, f, d) \in Elems(TierCandidates(elevators, k, f, d))

\* tier k decides: it has a candidate, and tier 2 needs two of them
TierDecides(els, k, callFloor, direction) ==
    IF k = 2 THEN Len(TierCandidates(els, k, callFloor, direction)) >= 2
             ELSE Len(TierCandidates(els, k, callFloor, direction)) >= 1

\* C3 amended: the first tier that decides supplies the returned elevator,
\* where tier 2 decides only with at least two elevators targeting the floor
\* (a single one is passed over and the later tiers decide).
C3_TierPrecedence ==
    \A f \in Floors, d \in Directions, k \in 1 .. 6 :
        ( /\ TierDecides(elevators, k, f, d)
          /\ \A j \in 1 .. (k - 1) : ~TierDecides(elevators, j, f, d) )
        => selectBestElevator(elevators, f, d) \in Elems(TierCandidates(elevators, k, f, d))

\* a single elevator targets the call floor, tier 1 is empty and an idle
\* elevator that does not target the floor is returned
C3_Witness ==
    \E f \in Floors, d \in Directions :
        /\ Len(Tier1(elevators, f, d)) = 0
        /\ Len(Tier2(elevators, f)) = 1
        /\ Len(Tier3(elevators)) > 0
        /\ selectBestElevator(elevators, f, d) \notin Elems(Tier2(elevators, f))

\* C4: a successful Pickup appends the floor to the queue of the elevator
\* selectBestElevator chooses on the fleet, reports that elevator's id, and
\* leaves every other elevator unchanged.
C4_PickupAssignsChosen ==
    [][ \A f \in Floors, d \in Directions :
          (Pickup(f, d) /\ pickupElevatorResponse(f, d).code = 200) =>
            LET b == selectBestElevator(elevators, f, d) IN
            /\ b # None
            /\ elevators'[b].targetFloors = Append(elevators[b].targetFloors, f)
            /\ pickupElevatorResponse(f, d).elevator = b
            /\ \A i \in Ids \ {b} : elevators'[i] = elevators[i] ]_vars

\* C5: with every elevator Off, Pickup reports no assigned elevator and
\* leaves the fleet unchanged.
C5_NoCandidateReported ==
    AllOff =>
        \A f \in Floors, d \in Directions :
            /\ pickupElevatorResponse(f, d).code = 404
            /\ pickupElevatorResponse(f, d).elevator = None
            /\ pickup(elevators, f, d) = elevators

\* C6: a running elevator at floor f with the single target t # f is, after
\* exactly |t - f| Steps, at floor t, Idle, with an empty queue.
C6_StepConvergence ==
    \A i \in Ids :
        LET e == elevators[i] IN
        ( /\ e.status # "off"
          /\ Len(e.targetFloors) = 1
          /\ e.targetFloors[1] # e.currentFloor )
        => LET r == StepN(elevators, Abs(e.targetFloors[1] - e.currentFloor))[i] IN
           /\ r.currentFloor = e.targetFloors[1]
           /\ r.status = "idle"
           /\ r.targetFloors = <<>>

\* C7: after the Step in which an elevator's floor comes to equal its head
\* target, its queue holds no occurrence of that floor.
C7_DuplicateArrivalPurge ==
    [][ Step =>
          \A i \in Ids :
            ( /\ elevators[i].status # "off"
              /\ Len(elevators[i].targetFloors) > 0
              /\ elevators'[i].currentFloor = elevators[i].targetFloors[1] )
            => elevators'[i].currentFloor \notin Elems(elevators'[i].targetFloors) ]_vars

\* C8: Configure(n, a) stores n and a and leaves elevator i at floor 0 with
\* an empty queue, Idle when i < a and Off otherwise.
C8_ConfigureResets ==
    [][ \A n \in FloorCounts, a \in ActiveCounts :
          Configure(n, a) =>
            /\ config' = [numberOfFloors |-> n, activeElevators |-> a]
            /\ \A i \in Ids :
                elevators'[i] = [id |-> i, currentFloor |-> 0, targetFloors |-> <<>>,
                                 status |-> IF i < a THEN "idle" ELSE "off"] ]_vars

\* the fleet right after a Configure that keeps one elevator active and
\* switches the others off
C8_Witness ==
    /\ config = [numberOfFloors |-> MaxFloors, activeElevators |-> 1]
    /\ elevators[0] = [id |-> 0, currentFloor |-> 0, targetFloors |-> <<>>,
                       status |-> "idle"]
    /\ \A i \in Ids \ {0} :
        elevators[i] = [id |-> i, currentFloor |-> 0, targetFloors |-> <<>>,
                        status |-> "off"]

\* C9: Configure is total and idempotent: it is enabled for every argument
\* in every state, and configuring the configured fleet again with the same
\* arguments changes nothing.
C9_ConfigureIdempotent ==
    [][ \A n \in FloorCounts, a \in ActiveCounts :
          /\ ENABLED Configure(n, a)
          /\ Configure(n, a) =>
                configureBuilding(elevators', config', n, a)
                    = [elevators |-> elevators', config |-> config'] ]_vars

\* a fleet reconfigured to fewer elevators than before, with an out-of-range
\* count (-1) and a zero count among the arguments tried
C9_Witness ==
    /\ config.activeElevators \in {-1, 0, 1}
    /\ config.numberOfFloors = 1
    /\ AllOff \/ elevators[0].status = "idle"

\* C10: an elevator is Off if and only if its id is at or above the
\* configured number of active elevators.
C10_OffIffInactive ==
    \A i \in Ids : (elevators[i].status = "off") <=> (i >= config.activeElevators)

\* part of the fleet is Off while an active elevator is moving
C10_Witness ==
    /\ \E i \in Ids : elevators[i].status = "off"
    /\ \E j \in Ids : elevators[j].status \in {"up", "down"}

\* C11: an Off elevator has an empty queue and stands at floor 0, and no
\* pickup, addTarget, update, updateStatus or step changes an Off elevator.
C11_OffUntouched ==
    \A i \in Ids :
        elevators[i].status = "off" =>
            /\ elevators[i].targetFloors = <<>>
            /\ elevators[i].currentFloor = 0
            /\ \A f \in Floors, d \in Directions :
                    pickup(elevators, f, d)[i] = elevators[i]
            /\ \A id \in RequestIds, t \in Floors :
                    addTarget(elevators, id, t)[i] = elevators[i]
            /\ \A id \in RequestIds, f \in Floors, t \in Targets :
                    /\ update(elevators, id, f, t)[i] = elevators[i]
                    /\ updateStatus(elevators, id, f, t)[i] = elevators[i]
            /\ step(elevators)[i] = elevators[i]

\* an Off elevator beside an active one that has left floor 0 and still holds
\* a pending target
C11_Witness ==
    /\ \E i \in Ids : elevators[i].status = "off"
    /\ \E j \in Ids : /\ elevators[j].status # "off"
                      /\ elevators[j].currentFloor > 0
                      /\ Len(elevators[j].targetFloors) > 0

\* C12: a non-Off elevator with an empty queue is Idle.
C12_EmptyQueueIdle ==
    \A i \in Ids :
        (elevators[i].status # "off" /\ elevators[i].targetFloors = <<>>)
            => elevators[i].status = "idle"

\* C13: an Idle elevator has an empty queue.
C13_IdleNoTargets ==
    \A i \in Ids :
        elevators[i].status = "idle" => elevators[i].targetFloors = <<>>

\* C14: an Up elevator has a non-empty queue whose head is above its floor,
\* a Down elevator a non-empty queue whose head is below its floor.
C14_HeadDirection ==
    \A i \in Ids :
        LET e == elevators[i] IN
        /\ e.status = "up" =>
            (Len(e.targetFloors) > 0 /\ e.targetFloors[1] > e.currentFloor)
        /\ e.status = "down" =>
            (Len(e.targetFloors) > 0 /\ e.targetFloors[1] < e.currentFloor)

\* fleets that follow from els by no call, or by one accepted pickup or
\* addTarget call
AfterCalls(els) ==
    {els}
    \cup {pickup(els, f, d) : f \in Floors, d \in Directions}
    \cup {addTarget(els, id, t) : id \in RequestIds, t \in Floors}

\* C15: an elevator that has just moved up and still holds a floor above it
\* does not move down at the next step, whatever call was accepted in
\* between; symmetrically for an elevator that has just moved down.
C15_NoPrematureReversal ==
    \A i \in Ids :
        LET moved == step(elevators) IN
        \A els \in AfterCalls(moved) :
            LET e == els[i] IN
            /\ ( /\ moved[i].currentFloor = elevators[i].currentFloor + 1
                 /\ \E k \in 1 .. Len(e.targetFloors) : e.targetFloors[k] > e.currentFloor )
               => step(els)[i].currentFloor >= e.currentFloor
            /\ ( /\ moved[i].currentFloor = elevators[i].currentFloor - 1
                 /\ \E k \in 1 .. Len(e.targetFloors) : e.targetFloors[k] < e.currentFloor )
               => step(els)[i].currentFloor <= e.currentFloor

Count(q, v) == Cardinality({k \in 1 .. Len(q) : q[k] = v})

\* same multiset of floors
Permutation(p, q) ==
    /\ Len(p) = Len(q)
    /\ \A v \in Elems(p) \cup Elems(q) : Count(p, v) = Count(q, v)

\* C16: sortRequests returns a permutation of its input: same floors, same
\* number of occurrences of each, for every floor, direction and list.
C16_SortPermutation ==
    [][ \A i \in Ids :
          UpdateElevatorTargets(i) =>
            Permutation(elevators[i].targetFloors, elevators'[i].targetFloors) ]_vars

\* a list with a repeated floor that sorting rearranges
C16_Witness ==
    LET e == elevators[0] IN
    /\ Len(e.targetFloors) = MaxSortLen
    /\ \E v \in SortFloors : Count(e.targetFloors, v) = 2
    /\ sortRequests(e.currentFloor, e.status, e.targetFloors) # e.targetFloors
    /\ Permutation(sortRequests(e.currentFloor, e.status, e.targetFloors), e.targetFloors)

\* C17: for direction up the result is the floors at or above currentFloor
\* in ascending order, followed by the floors below it in ascending order.
C17_UpOrder ==
    [][ \A i \in Ids :
          (UpdateElevatorTargets(i) /\ elevators[i].status = "up") =>
            LET c == elevators[i].currentFloor
                out == elevators'[i].targetFloors IN
            /\ Permutation(elevators[i].targetFloors, out)
            /\ \A p, q \in 1 .. Len(out) :
                p < q =>
                    /\ ~(out[p] < c /\ out[q] >= c)
                    /\ ((out[p] >= c) <=> (out[q] >= c)) => out[p] <= out[q] ]_vars

\* currentFloor 2, up, [1,3,0,4] is sorted to [3,4,0,1]
C17_Witness ==
    /\ elevators[0].status = "up"
    /\ elevators[0].currentFloor = 2
    /\ elevators[0].targetFloors = <<1, 3, 0, 4>>
    /\ updateElevatorTargets(elevators[0]).targetFloors = <<3, 4, 0, 1>>

\* C18: for direction down the result is the floors at or below currentFloor
\* in descending order, followed by the floors above it in descending order.
C18_DownOrder ==
    [][ \A i \in Ids :
          (UpdateElevatorTargets(i) /\ elevators[i].status = "down") =>
            LET c == elevators[i].currentFloor
                out == elevators'[i].targetFloors IN
            /\ Permutation(elevators[i].targetFloors, out)
            /\ \A p, q \in 1 .. Len(out) :
                p < q =>
                    /\ ~(out[p] > c /\ out[q] <= c)
                    /\ ((out[p] <= c) <=> (out[q] <= c)) => out[p] >= out[q] ]_vars

\* currentFloor 2, down, [1,3,0,4] is sorted to [1,0,4,3]
C18_Witness ==
    /\ elevators[0].status = "down"
    /\ elevators[0].currentFloor = 2
    /\ elevators[0].targetFloors = <<1, 3, 0, 4>>
    /\ updateElevatorTargets(elevators[0]).targetFloors = <<1, 0, 4, 3>>

\* floors of q at distance d from floor c, in the order of q
AtDistance(q, c, d) == SelectSeq(q, LAMBDA v : Abs(v - c) = d)

\* C19: for direction idle or off the result is in non-decreasing distance
\* from currentFloor, and floors at the same distance keep their input order.
C19_IdleOrder ==
    [][ \A i \in Ids :
          (UpdateElevatorTargets(i) /\ elevators[i].status \in {"idle", "off"}) =>
            LET c == elevators[i].currentFloor
                in == elevators[i].targetFloors
                out == elevators'[i].targetFloors IN
            /\ Len(out) = Len(in)
            /\ \A p, q \in 1 .. Len(out) :
                p < q => Abs(out[p] - c) <= Abs(out[q] - c)
            /\ \A d \in 0 .. MaxSortFloor :
                AtDistance(out, c, d) = AtDistance(in, c, d) ]_vars

\* currentFloor 2, idle, [4,0,3] is sorted to [3,4,0]: 4 and 0 are both two
\* floors away and stay in input order
C19_Witness ==
    /\ elevators[0].status = "idle"
    /\ elevators[0].currentFloor = 2
    /\ elevators[0].targetFloors = <<4, 0, 3>>
    /\ updateElevatorTargets(elevators[0]).targetFloors = <<3, 4, 0>>

\* tiers that pick by distance: 2, 3, 5 and the fallback
DistanceTiers == {2, 3, 5, 6}

\* C20: when a tier that picks by distance decides a call, the elevator
\* returned is one of its candidates at the minimum distance from the call
\* floor, and the one with the lowest id among those.
C20_ClosestLowestId ==
    \A f \in Floors, d \in Directions, k \in DistanceTiers :
        ( /\ TierDecides(elevators, k, f, d)
          /\ \A j \in 1 .. (k - 1) : ~TierDecides(elevators, j, f, d) )
        => LET cand == Elems(TierCandidates(elevators, k, f, d))
               b == selectBestElevator(elevators, f, d) IN
           /\ b \in cand
           /\ \A c \in cand :
                /\ distance(elevators, b, f) <= distance(elevators, c, f)
                /\ distance(elevators, c, f) = distance(elevators, b, f)
                        => elevators[b].id <= elevators[c].id

\* two idle elevators on different floors, equally far from the call floor:
\* the idle tier decides and the lower id is returned
C20_Witness ==
    \E f \in Floors, d \in Directions :
        /\ TierDecides(elevators, 3, f, d)
        /\ \A j \in 1 .. 2 : ~TierDecides(elevators, j, f, d)
        /\ \E a, b \in Elems(Tier3(elevators)) :
            /\ a < b
            /\ elevators[a].currentFloor # elevators[b].currentFloor
            /\ distance(elevators, a, f) = distance(elevators, b, f)
            /\ selectBestElevator(elevators, f, d) = a

\* tiers that pick by load: 1 and 4
LoadTiers == {1, 4}

\* C21: when tier 1 or tier 4 decides a call, the elevator returned is one of
\* its candidates and no candidate of that tier has fewer pending targets.
C21_LeastLoaded ==
    \A f \in Floors, d \in Directions, k \in LoadTiers :
        ( /\ TierDecides(elevators, k, f, d)
          /\ \A j \in 1 .. (k - 1) : ~TierDecides(elevators, j, f, d) )
        => LET cand == Elems(TierCandidates(elevators, k, f, d))
               b == selectBestElevator(elevators, f, d) IN
           /\ b \in cand
           /\ \A c \in cand :
                Len(elevators[b].targetFloors) <= Len(elevators[c].targetFloors)

\* tier 1 or 4 decides between two candidates with different loads and the
\* one with the higher id, holding fewer targets, is returned
C21_Witness ==
    \E f \in Floors, d \in Directions, k \in LoadTiers :
        /\ TierDecides(elevators, k, f, d)
        /\ \A j \in 1 .. (k - 1) : ~TierDecides(elevators, j, f, d)
        /\ \E a, b \in Elems(TierCandidates(elevators, k, f, d)) :
            /\ a < b
            /\ Len(elevators[b].targetFloors) < Len(elevators[a].targetFloors)
            /\ selectBestElevator(elevators, f, d) = b

\* C22: an AddTarget for an id that matches no elevator, or for an Off
\* elevator, completes and changes nothing: not the fleet, not the config.
C22_AddTargetNoOp ==
    [][ \A id \in RequestIds, t \in Floors :
          (id \notin Ids \/ elevators[id].status = "off") =>
            /\ ENABLED AddTarget(id, t)
            /\ AddTarget(id, t) => UNCHANGED <<elevators, config>> ]_vars

\* elevator 1 is Off beside an active elevator 0 that holds a target, and a
\* target for elevator 1 or for the unknown id leaves the fleet as it is
C22_Witness ==
    /\ elevators[1].status = "off"
    /\ elevators[0].status # "off"
    /\ Len(elevators[0].targetFloors) > 0
    /\ \A t \in Floors :
        /\ addTarget(elevators, 1, t) = elevators
        /\ addTarget(elevators, Capacity, t) = elevators

\* C23: AddTarget reports acceptance exactly when the named elevator exists
\* in the fleet and is not Off.
C23_AcceptedIffActive ==
    \A id \in RequestIds :
        (addTargetFloorResponse(id).code = 200)
            <=> (id \in Ids /\ elevators[id].status # "off")

InRange(els, n) ==
    \A i \in Ids :
        /\ els[i].currentFloor \in 0 .. (n - 1)
        /\ \A k \in 1 .. Len(els[i].targetFloors) :
                els[i].targetFloors[k] \in 0 .. (n - 1)

\* a step whose Configure leaves at least one floor and whose calls and
\* targets name floors of the building as configured at the time
CallsInRange ==
    \/ \E n \in FloorCounts, a \in ActiveCounts : n >= 1 /\ Configure(n, a)
    \/ \E f \in Floors, d \in Directions :
            f < config.numberOfFloors /\ Pickup(f, d)
    \/ \E id \in RequestIds, t \in Floors :
            t < config.numberOfFloors /\ AddTarget(id, t)
    \/ Step

\* the same for the floor and target handed to a status update
UpdateInRange ==
    \E id \in RequestIds, f \in Floors, t \in Targets :
        /\ f < config.numberOfFloors
        /\ (t = Null \/ t < config.numberOfFloors)
        /\ Update(id, f, t)

AnyUpdate ==
    \E id \in RequestIds, f \in Floors, t \in Targets : Update(id, f, t)

\* C26 as stated: with at least one floor and every Pickup and AddTarget floor
\* in range, every currentFloor stays in range, whatever else is called.
C26_FloorInRangeAnyUpdate ==
    [][ ( /\ config.numberOfFloors >= 1
          /\ InRange(elevators, config.numberOfFloors)
          /\ (CallsInRange \/ AnyUpdate) )
        => \A i \in Ids :
             elevators'[i].currentFloor \in 0 .. (config'.numberOfFloors - 1) ]_vars

\* C26 amended: with at least one floor and every floor passed to Pickup,
\* AddTarget and the status update in range, every currentFloor (and every
\* queued floor) stays in range, also across a Configure that lowers the
\* number of floors.
C26_FloorInRange ==
    [][ ( /\ config.numberOfFloors >= 1
          /\ InRange(elevators, config.numberOfFloors)
          /\ (CallsInRange \/ UpdateInRange) )
        => InRange(elevators', config'.numberOfFloors) ]_vars

\* a building configured with MaxFloors floors in which an elevator has
\* travelled to the top floor and another stands elsewhere, all in range
C26_Witness ==
    /\ config.numberOfFloors = MaxFloors
    /\ InRange(elevators, config.numberOfFloors)
    /\ \E i \in Ids : /\ elevators[i].currentFloor = MaxFloors - 1
                      /\ elevators[i].status = "idle"
    /\ \E j \in Ids : elevators[j].currentFloor < MaxFloors - 1

\* C27: the fleet is always Capacity records, the record at index i carrying
\* id i: no operation adds, removes, reorders or renumbers a record.
C27_FleetFixed ==
    /\ DOMAIN elevators = Ids
    /\ Cardinality(DOMAIN elevators) = Capacity
    /\ \A i \in Ids : elevators[i].id = i

\* both elevators are running and the one with the lower index holds more
\* targets, so the fleet in index order is not in load order
C27_Witness ==
    /\ \A i \in Ids : elevators[i].status \in {"up", "down"}
    /\ Len(elevators[0].targetFloors) > Len(elevators[1].targetFloors)
    /\ Len(elevators[1].targetFloors) > 0
    /\ \A i \in Ids : elevators[i].id = i

\* C28: in one Step an elevator that is not Off and has a queue moves exactly
\* one floor towards its head target when the head is another floor and stays
\* when the head is its own floor; no elevator moves more than one floor.
C28_OneFloorPerStep ==
    [][ Step =>
          \A i \in Ids :
            LET e == elevators[i]
                f == elevators'[i].currentFloor IN
            /\ Abs(f - e.currentFloor) <= 1
            /\ (e.status # "off" /\ Len(e.targetFloors) > 0) =>
                /\ e.targetFloors[1] > e.currentFloor => f = e.currentFloor + 1
                /\ e.targetFloors[1] < e.currentFloor => f = e.currentFloor - 1
                /\ e.targetFloors[1] = e.currentFloor => f = e.currentFloor ]_vars

\* an elevator one floor into a two-floor trip: it left floor 0 for the top
\* floor and stands on floor 1, still going up
C28_Witness ==
    \E i \in Ids :
        /\ elevators[i].status = "up"
        /\ elevators[i].currentFloor = 1
        /\ elevators[i].targetFloors = <<2>>

\* C29: Step leaves every elevator that is Off or has an empty queue exactly
\* as it is, and never changes the building config.
C29_StepFrame ==
    [][ Step =>
          /\ config' = config
          /\ \A i \in Ids :
                (elevators[i].status = "off" \/ elevators[i].targetFloors = <<>>)
                    => elevators'[i] = elevators[i] ]_vars

\* an Off elevator beside a running elevator away from floor 0 whose queue
\* is empty
C29_Witness ==
    /\ \E i \in Ids : elevators[i].status = "off"
    /\ \E j \in Ids : /\ elevators[j].status \in {"up", "down"}
                      /\ elevators[j].targetFloors = <<>>
                      /\ elevators[j].currentFloor > 0

\* C30: after the Step that removes the head target an elevator has arrived
\* at, it is Idle when the queue is empty, Up when the new head is above its
\* floor, Down when the new head is below.
C30_StatusAfterArrival ==
    [][ Step =>
          \A i \in Ids :
            ( /\ elevators[i].status # "off"
              /\ Len(elevators[i].targetFloors) > 0
              /\ elevators[i].targetFloors[1] = elevators[i].currentFloor )
            => LET e == elevators'[i] IN
               /\ e.targetFloors = <<>> => e.status = "idle"
               /\ (e.targetFloors # <<>> /\ e.targetFloors[1] > e.currentFloor)
                    => e.status = "up"
               /\ (e.targetFloors # <<>> /\ e.targetFloors[1] < e.currentFloor)
                    => e.status = "down" ]_vars

\* C31: in a Step a running elevator with a queue moves towards the head of
\* its queue as reordered by sortRequests for its floor and status, not
\* towards the head of the queue as it stood.
C31_StepMovesToReorderedHead ==
    [][ Step =>
          \A i \in Ids :
            LET e == elevators[i]
                head == sortRequests(e.currentFloor, e.status, e.targetFloors)[1] IN
            (e.status # "off" /\ Len(e.targetFloors) > 0) =>
                /\ head > e.currentFloor
                        => elevators'[i].currentFloor = e.currentFloor + 1
                /\ head < e.currentFloor
                        => elevators'[i].currentFloor = e.currentFloor - 1
                /\ head = e.currentFloor
                        => elevators'[i].currentFloor = e.currentFloor ]_vars

\* C32: right after an accepted Pickup the queue of the chosen elevator is
\* sortRequests of the old queue with the call floor appended, for the
\* elevator's floor and status; likewise after an accepted AddTarget.
C32_QueueNormalized ==
    [][ /\ \A f \in Floors, d \in Directions :
            LET b == selectBestElevator(elevators, f, d) IN
            (Pickup(f, d) /\ b # None) =>
                \/ elevators'[b].targetFloors =
                     sortRequests(elevators[b].currentFloor, elevators[b].status,
                                  Append(elevators[b].targetFloors, f))
                \/ elevators'[b].targetFloors =
                     sortRequests(elevators[b].currentFloor, elevators'[b].status,
                                  Append(elevators[b].targetFloors, f))
        /\ \A id \in Ids, t \in Floors :
            (AddTarget(id, t) /\ elevators[id].status # "off") =>
                elevators'[id].targetFloors =
                    sortRequests(elevators[id].currentFloor, elevators[id].status,
                                 Append(elevators[id].targetFloors, t)) ]_vars

\* C39: AddTarget is idempotent on a running elevator: a floor already in the
\* queue leaves the fleet as it is, a second identical call changes nothing
\* after the first, and the call never takes the number of occurrences of the
\* floor beyond one.
C39_AddTargetIdempotent ==
    [][ \A id \in Ids, t \in Floors :
          (AddTarget(id, t) /\ elevators[id].status # "off") =>
            /\ includes(elevators[id].targetFloors, t) => elevators' = elevators
            /\ addTarget(elevators', id, t) = elevators'
            /\ Count(elevators'[id].targetFloors, t) > Count(elevators[id].targetFloors, t)
                  => Count(elevators'[id].targetFloors, t) = 1 ]_vars

\* elevator 0 runs with floor 1 queued and floor 0 not: a target 1 changes
\* nothing, a target 0 is queued once and a second target 0 changes nothing
C39_Witness ==
    /\ elevators[0].status # "off"
    /\ elevators[0].targetFloors = <<1>>
    /\ addTarget(elevators, 0, 1) = elevators
    /\ addTarget(elevators, 0, 0)[0].targetFloors = <<0, 1>>
    /\ addTarget(addTarget(elevators, 0, 0), 0, 0) = addTarget(elevators, 0, 0)

\* C40: sortRequests is idempotent: sorting a sorted list again, for the same
\* floor and direction, returns it unchanged.
C40_SortIdempotent ==
    [][ \A i \in Ids :
          UpdateElevatorTargets(i) =>
            updateElevatorTargets(elevators'[i]) = elevators'[i] ]_vars

\* floor 2 going up, [0,3,3,1]: the first sort gives [3,3,0,1], which a
\* second sort returns as it is
C40_Witness ==
    /\ elevators[0].status = "up"
    /\ elevators[0].currentFloor = 2
    /\ elevators[0].targetFloors = <<0, 3, 3, 1>>
    /\ updateElevatorTargets(elevators[0]).targetFloors = <<3, 3, 0, 1>>
    /\ updateElevatorTargets(updateElevatorTargets(elevators[0]))
         = updateElevatorTargets(elevators[0])

\* C38: a running elevator never leaves a floor that is in its queue: while
\* it stands at a floor queued anywhere in its queue, a Step keeps it there
\* until the floor has been taken out.
C38_NoPassingQueuedFloor ==
    [][ Step =>
          \A i \in Ids :
            LET e == elevators[i] IN
            (e.status # "off" /\ includes(e.targetFloors, e.currentFloor)) =>
                elevators'[i].currentFloor = e.currentFloor ]_vars

\* steps that drain any queue within the bounds: per queued floor at most
\* MaxFloors - 1 moves and one arrival
QuiesceSteps == MaxQueue * MaxFloors

\* C36: left to Step alone, the fleet comes to rest in finitely many steps:
\* every queue is empty, every elevator that is not off is idle, and a
\* further Step changes nothing.
C36_Quiescence ==
    LET r == StepN(elevators, QuiesceSteps) IN
    /\ \A i \in Ids :
        /\ r[i].targetFloors = <<>>
        /\ r[i].status # "off" => r[i].status = "idle"
    /\ step(r) = r

\* floor f is in the queue of elevator i, which is not off
Queued(i, f) ==
    elevators[i].status # "off" /\ includes(elevators[i].targetFloors, f)

\* a Step in which elevator i stands at f with f at the head of its queue:
\* the elevator stops there and the floor is taken out
Serves(i, f) ==
    /\ Step
    /\ elevators[i].status # "off"
    /\ Len(elevators[i].targetFloors) > 0
    /\ elevators[i].targetFloors[1] = f
    /\ elevators[i].currentFloor = f

\* an AddTarget that changes the queue of elevator i
Retargets(i) == \E t \in Floors : AddTarget(i, t)

\* C37: no starvation, whatever calls and targets keep being accepted: a floor
\* does not stay in the queue of a running elevator for ever without the
\* elevator stopping at it (either it is out of the queue again and again, or
\* the elevator stops at it again and again).
C37_NoStarvation ==
    \A i \in Ids, f \in Floors :
        \/ []<>(~Queued(i, f))
        \/ []<><<Serves(i, f)>>_vars

\* C37, amended: the same, provided the AddTarget calls that change the
\* elevator's queue come to an end; Pickup calls may go on.
C37_NoStarvationOncePinned ==
    \A i \in Ids, f \in Floors :
        \/ []<>(~Queued(i, f))
        \/ []<><<Serves(i, f)>>_vars
        \/ []<><<Retargets(i)>>_vars

\* elevator 0 stands at floor 2 with floor 2 at the head of its queue and a
\* later call for floor 0 behind it: the next Step stops there
C37_Witness ==
    /\ elevators[0].status # "off"
    /\ elevators[0].currentFloor = 2
    /\ elevators[0].targetFloors = <<2, 0>>
    /\ \lnot includes(step(elevators)[0].targetFloors, 2)

\* the lists a filter over the fleet can hand to the load rule: the ids in
\* fleet order, any of them left out
CandidateLists == {SelectSeq(IdSeq, LAMBDA i : i \in S) : S \in SUBSET Ids}

\* C35: in getBestElevatorBasedOnTargetDifference the branch that returns
\* the next elevator when the queue-length gap exceeds 2 is never taken: for
\* every candidate list the gap between the first and the second of the
\* sorted list does not exceed 2 and the first of the sorted list is returned.
C35_HandOffUnreachable ==
    \A cand \in CandidateLists :
        LET sorted == SortByLoad(elevators, cand) IN
        Len(sorted) > 0 =>
            /\ Len(sorted) > 1 =>
                 Len(elevators[sorted[1]].targetFloors)
                   - Len(elevators[sorted[2]].targetFloors) <= LoadGap
            /\ getBestElevatorBasedOnTargetDifference(elevators, cand) = sorted[1]

\* elevator 0 holds three calls more than elevator 1, both are candidates,
\* and elevator 1, first after the sort, is returned
C35_Witness ==
    /\ Len(elevators[0].targetFloors) - Len(elevators[1].targetFloors) > LoadGap
    /\ SortByLoad(elevators, <<0, 1>>) = <<1, 0>>
    /\ getBestElevatorBasedOnTargetDifference(elevators, <<0, 1>>) = 1
    /\ \E f \in Floors, d \in Directions :
         /\ Tier4(elevators, f, d) = <<0, 1>>
         /\ selectBestElevator(elevators, f, d) = 1

\* every order in which the indices of the fleet can be visited
VisitOrders ==
    {o \in [1 .. Capacity -> Ids] : \A a, b \in 1 .. Capacity : a # b => o[a] # o[b]}

\* states another elevator could be in
OtherStates(j) ==
    {[id |-> j, currentFloor |-> c, targetFloors |-> q, status |-> st] :
        c \in Floors, q \in {<<>>} \cup {<<t>> : t \in Floors}, st \in Statuses}

\* C33: within one Step the new floor, queue and status of an elevator depend
\* on that elevator's own state before the Step only: putting any other
\* elevator in another state changes nothing for it, and visiting the
\* elevators in any order gives the fleet the Step gives.
C33_StepPerElevator ==
    [][ Step =>
          /\ \A i \in Ids : elevators'[i] = stepElevator(elevators[i])
          /\ \A i \in Ids : \A j \in Ids \ {i} : \A e2 \in OtherStates(j) :
                step([elevators EXCEPT ![j] = e2])[i] = elevators'[i]
          /\ \A order \in VisitOrders : stepInOrder(elevators, order) = elevators' ]_vars

\* both elevators have a target, elevator 1 is about to move onto the floor
\* elevator 0 moves to, and visiting 1 before 0 gives the same fleet
C33_Witness ==
    /\ \A i \in Ids : elevators[i].status # "off" /\ Len(elevators[i].targetFloors) > 0
    /\ step(elevators)[0].currentFloor # elevators[0].currentFloor
    /\ step(elevators)[1].currentFloor # elevators[1].currentFloor
    /\ step(elevators)[1].currentFloor = step(elevators)[0].currentFloor
    /\ stepInOrder(elevators, <<1, 0>>) = step(elevators)

====
